---- MODULE Spec2Model ----
(***************************************************************************)
(* IRIV IO Controller: the cooperative main loop (main.py), the RS485      *)
(* sensor poller with its register decoder (rs485_sensor.py) and the web   *)
(* status server (web_status.py).                                          *)
(*                                                                         *)
(* Time is counted in ticks of 0.1 s: the heartbeat period 0.5 s is 5      *)
(* ticks, the poll-interval floor 0.2 s is 2 ticks, the default interval   *)
(* 2.0 s is 20 ticks.  Python floats that the code computes with are       *)
(* records [k, v]: k = "fin" (v ticks), "nan" or "inf".                    *)
(***************************************************************************)
EXTENDS Integers, Sequences, FiniteSets, TLC

\* ------------------------------------------------------------------ bounds
MaxTime == 7
MaxErr == 3
MaxConsults == 2
MaxWebInits == 2

\* ------------------------------------------------------- program constants
FloorTicks == 2
DefaultPollTicks == 20
DefaultScale == 1
HeartbeatTicks == 5
DefaultPort == 80

\* ------------------------------------------------------------------- state
VARIABLES
  env,        \* settings.toml, as os.getenv reads it
  now,        \* time.monotonic(), in ticks
  rs,         \* the module globals of rs485_sensor
  lastCall,   \* what the latest rs485_sensor.process() call did
  reads,      \* the register reads that call attempted
  attempts,   \* the times of the last two primary poll attempts
  consults,   \* how many times _init has read the settings, up to MaxConsults
  pc,         \* the main loop's position
  timestamp,  \* main.py's heartbeat timestamp
  led,        \* Hal.led.value
  trace,      \* the calls the current iteration of the main loop has made
  exit,       \* how the main loop was left, "running" while it has not been
  dargs,      \* the arguments of a call of _decode_vals
  dout,       \* what that call returned, None before it is made
  web,        \* the module globals of web_status
  sockpool,   \* Modbus.sockpool
  hal,        \* Hal.dout0.value .. Hal.dout3.value
  coils,      \* the Modbus coils that mirror the digital outputs
  webCall,    \* what the latest web_status.process() call did
  webInits    \* how many times _init_server has been called, up to MaxWebInits

sensorVars == <<rs, lastCall, reads, attempts, consults>>
loopVars == <<pc, timestamp, led, trace, exit>>
decVars == <<dargs, dout>>
webVars == <<web, sockpool, hal, coils, webCall, webInits>>
vars ==
  <<env, now, rs, lastCall, reads, attempts, consults, pc, timestamp, led, trace, exit,
    dargs, dout, web, sockpool, hal, coils, webCall, webInits>>

\* ----------------------------------------------------------- Python values
None == <<>>
Some(v) == <<v>>

NoneStr == "<None>"

Fin(n) == [k |-> "fin", v |-> n]
NaN == [k |-> "nan", v |-> 0]
PosInf == [k |-> "inf", v |-> 0]

\* float + float
FAdd(a, b) ==
  IF a.k = "nan" \/ b.k = "nan" THEN NaN
  ELSE IF a.k = "inf" \/ b.k = "inf" THEN PosInf
  ELSE Fin(a.v + b.v)

\* float < float (every comparison with NaN is False)
FLt(a, b) ==
  /\ a.k # "nan"
  /\ b.k # "nan"
  /\ \/ a.k = "fin" /\ b.k = "inf"
     \/ a.k = "fin" /\ b.k = "fin" /\ a.v < b.v

\* A value of settings.toml as os.getenv returns it for a numeric setting:
\* absent, a TOML integer, a numeric string, "nan", "inf", or another string.
\* For a setting read with float() (poll interval, scales) v counts tenths.
EnvNone == [k |-> "none", v |-> 0]
EnvInt(n) == [k |-> "int", v |-> n]
EnvNum(n) == [k |-> "num", v |-> n]
EnvBad == [k |-> "bad", v |-> 0]
EnvNaN == [k |-> "nan", v |-> 0]
EnvInf == [k |-> "inf", v |-> 0]
EnvEmpty == [k |-> "empty", v |-> 0]

\* Python truthiness of such a value, as `x or default` tests it:
\* None, the integer 0 and the empty string are false
Truthy(x) == ~(x.k \in {"none", "empty"} \/ (x.k = "int" /\ x.v = 0))

\* `x or d`, d given as a number
OrDefault(x, d) == IF Truthy(x) THEN x ELSE EnvInt(d)

\* int(x) raises ValueError unless x is an integer or an integer string
IntRaises(x) == x.k \notin {"int", "num"}

\* float(x) raises ValueError unless x is a number, "nan" or "inf"
FloatRaises(x) == x.k \notin {"int", "num", "nan", "inf"}

\* float(x), in ticks
ToFloat(x) ==
  IF x.k = "nan" THEN NaN
  ELSE IF x.k = "inf" THEN PosInf
  ELSE Fin(x.v)

_parse_bool(v, default) ==
  IF v \in {"1", "true", "yes", "on"} THEN TRUE
  ELSE IF v \in {"0", "false", "no", "off"} THEN FALSE
  ELSE default

\* `s or d` for a string setting
StrOr(s, d) == IF s = NoneStr \/ s = "" THEN d ELSE s

\* str.strip().lower() and str.strip().upper() on the settings of the model
StripLower(s) ==
  CASE s = "TRUE" -> "true"
    [] s = " on " -> "on"
    [] s = " Yes " -> "yes"
    [] s = "INT16" -> "int16"
    [] s = "Float32" -> "float32"
    [] OTHER -> s

StripUpper(s) ==
  CASE s = "sn_hute" -> "SN_HUTE"
    [] s = " hreg" -> "HREG"
    [] s = "ireg" -> "IREG"
    [] OTHER -> s

\* str.startswith("float32")
StartsWithFloat32(f) == f \in {"float32", "float32_swapped", "float32x"}

\* The globals of rs485_sensor as the module body sets them
RsInit ==
  [enabled |-> FALSE, serial |-> "None",
   slave_addr |-> 1, reg_addr |-> 0, use_input_regs |-> TRUE,
   signed |-> FALSE, scale |-> Fin(DefaultScale), format |-> "int16", qty |-> 1,
   hum_enable |-> FALSE, hum_reg |-> 1, hum_signed |-> FALSE,
   hum_scale |-> Fin(DefaultScale), hum_format |-> "int16", hum_qty |-> 1,
   poll_s |-> Fin(DefaultPollTicks),
   last_value |-> None, last_raw |-> None, last_ok |-> FALSE, last_ts |-> Fin(0),
   next_poll |-> Fin(0), err_count |-> 0,
   last_hum |-> None, last_hum_raw |-> None, last_hum_ok |-> FALSE]

\* presets that give every profile the generic defaults
ProfileAlwaysGeneric(profile) ==
  [func |-> "IREG", reg |-> 0, scale |-> DefaultScale, fmt |-> "int16", qty |-> 1,
   h_en |-> FALSE, h_reg |-> 1, h_scale |-> DefaultScale, h_fmt |-> "int16",
   h_qty |-> 1]

\* The profile presets of _init
ProfileDefaults(profile) ==
  IF profile = "SN_HUTE"
  THEN [func |-> "HREG", reg |-> 1, scale |-> DefaultScale, fmt |-> "int16", qty |-> 1,
        h_en |-> TRUE, h_reg |-> 2, h_scale |-> DefaultScale, h_fmt |-> "int16",
        h_qty |-> 1]
  ELSE [func |-> "IREG", reg |-> 0, scale |-> DefaultScale, fmt |-> "int16", qty |-> 1,
        h_en |-> FALSE, h_reg |-> 1, h_scale |-> DefaultScale, h_fmt |-> "int16",
        h_qty |-> 1]

\* try: int(q or (2 if fmt.startswith("float32") else d)) except: 1
QtyOf(q, fmt, d) ==
  LET x == OrDefault(q, IF StartsWithFloat32(fmt) THEN 2 ELSE d)
  IN IF IntRaises(x) THEN 1 ELSE x.v

\* try: float(s or d) except: 0.1
ScaleOf(s, d) ==
  LET x == OrDefault(s, d)
  IN IF FloatRaises(x) THEN Fin(DefaultScale) ELSE ToFloat(x)

\* try: float(p or 2), floored at 0.2; except: 2.0
PollOf(p) ==
  LET x == OrDefault(p, DefaultPollTicks)
  IN IF FloatRaises(x) THEN Fin(DefaultPollTicks)
     ELSE IF FLt(ToFloat(x), Fin(FloorTicks)) THEN Fin(FloorTicks)
     ELSE ToFloat(x)

\* the except branch of _init: whatever was assigned stays, the transport is None
InitRaised(m) == [m EXCEPT !.serial = "None"]

\* rs485_sensor._init() at time t; ctorOk: Serial(...) returns instead of raising
_init(m, t, ctorOk) ==
  IF env.MODBUS_MODE # "TCP" THEN [m EXCEPT !.enabled = FALSE]
  ELSE IF ~_parse_bool(StripLower(env.RS485_SENSOR_ENABLE), FALSE)
  THEN [m EXCEPT !.enabled = FALSE]
  ELSE
    LET d == ProfileDefaults(StripUpper(StrOr(env.RS485_SENSOR_PROFILE, "GENERIC")))
        m0 == [m EXCEPT !.enabled = TRUE]
        addr == OrDefault(env.RS485_SENSOR_ADDR, 1)
        m1 == [m0 EXCEPT !.slave_addr = addr.v]
        reg == OrDefault(env.RS485_SENSOR_REG, d.reg)
        fmt == StripLower(StrOr(env.RS485_SENSOR_FORMAT, d.fmt))
        m2 == [m1 EXCEPT
                 !.reg_addr = reg.v,
                 !.use_input_regs =
                    (StripUpper(StrOr(env.RS485_SENSOR_FUNC, d.func)) # "HREG"),
                 !.signed = _parse_bool(StripLower(env.RS485_SENSOR_SIGNED), FALSE),
                 !.format = fmt,
                 !.qty = QtyOf(env.RS485_SENSOR_QTY, fmt, d.qty),
                 !.scale = ScaleOf(env.RS485_SENSOR_SCALE, d.scale),
                 !.hum_enable =
                    _parse_bool(StripLower(env.RS485_SENSOR_HUM_ENABLE), d.h_en)]
        hreg == OrDefault(env.RS485_SENSOR_HUM_REG, d.h_reg)
        hfmt == StripLower(StrOr(env.RS485_SENSOR_HUM_FORMAT, d.h_fmt))
        m3 == IF m2.hum_enable
              THEN [m2 EXCEPT
                      !.hum_reg = hreg.v,
                      !.hum_signed =
                         _parse_bool(StripLower(env.RS485_SENSOR_HUM_SIGNED), FALSE),
                      !.hum_format = hfmt,
                      !.hum_qty = QtyOf(env.RS485_SENSOR_HUM_QTY, hfmt, d.h_qty),
                      !.hum_scale = ScaleOf(env.RS485_SENSOR_HUM_SCALE, d.h_scale)]
              ELSE m2
        m4 == [m3 EXCEPT !.poll_s = PollOf(env.RS485_SENSOR_POLL_SEC)]
        baud == IF Truthy(env.RS485_SENSOR_BAUD) THEN env.RS485_SENSOR_BAUD
                ELSE OrDefault(env.MODBUS_RTU_BAUDRATE, 9600)
    IN IF IntRaises(addr) THEN InitRaised(m0)
       ELSE IF IntRaises(reg) THEN InitRaised(m1)
       ELSE IF m2.hum_enable /\ IntRaises(hreg) THEN InitRaised(m2)
       ELSE IF IntRaises(baud) THEN InitRaised(m4)
       ELSE IF ~ctorOk THEN InitRaised(m4)
       ELSE [m4 EXCEPT !.serial = "Serial", !.next_poll = t]

\* ---------------------------------------------------------------- decoding
\* words a device returns for the primary and for the humidity channel
Words == {235, 65535}
HumWords == {612, 65535}

\* the transport's conversion of a register word when signed=True
ToSigned(w) == IF w >= 32768 THEN w - 65536 ELSE w

\* x & 0xFFFF
Mask16(x) == x % 65536

\* A Python integer hi * 65536 + lo, kept as its two parts: a 32-bit pattern
\* does not fit the integers of the model checker
Wide(hi, lo) == [hi |-> hi, lo |-> lo]

\* raw * scale (f * scale for a float32 pattern), kept as the product's factors
Scaled(kind, x, scale) == [kind |-> kind, x |-> x, scale |-> scale]

\* _decode_vals: [raised, raw, val]; vals[1] raises IndexError on a single word
DecodeRaised ==
  [raised |-> TRUE, raw |-> Wide(0, 0), val |-> Scaled("int", Wide(0, 0), Fin(0))]

\* a decoder that takes the words of float32_swapped in the order of float32
DecodeUnswapped(vals, fmt, signed, scale) ==
  IF fmt \in {"float32", "float32_swapped"} THEN
    IF Len(vals) < 2 THEN DecodeRaised
    ELSE LET bin32 == Wide(Mask16(vals[1]), Mask16(vals[2]))
         IN [raised |-> FALSE, raw |-> bin32, val |-> Scaled("f32", bin32, scale)]
  ELSE
    IF Len(vals) < 1 THEN DecodeRaised
    ELSE LET raw == IF fmt = "uint16" THEN Mask16(vals[1]) ELSE vals[1]
         IN [raised |-> FALSE, raw |-> Wide(0, raw),
             val |-> Scaled("int", Wide(0, raw), scale)]

_decode_vals(vals, fmt, signed, scale) ==
  IF fmt = "int16" THEN
    IF Len(vals) < 1 THEN DecodeRaised
    ELSE [raised |-> FALSE, raw |-> Wide(0, vals[1]),
          val |-> Scaled("int", Wide(0, vals[1]), scale)]
  ELSE IF fmt = "uint16" THEN
    IF Len(vals) < 1 THEN DecodeRaised
    ELSE [raised |-> FALSE, raw |-> Wide(0, Mask16(vals[1])),
          val |-> Scaled("int", Wide(0, Mask16(vals[1])), scale)]
  ELSE IF fmt = "float32" THEN
    IF Len(vals) < 2 THEN DecodeRaised
    ELSE LET bin32 == Wide(Mask16(vals[1]), Mask16(vals[2]))
         IN [raised |-> FALSE, raw |-> bin32, val |-> Scaled("f32", bin32, scale)]
  ELSE IF fmt = "float32_swapped" THEN
    IF Len(vals) < 2 THEN DecodeRaised
    ELSE LET bin32 == Wide(Mask16(vals[2]), Mask16(vals[1]))
         IN [raised |-> FALSE, raw |-> bin32, val |-> Scaled("f32", bin32, scale)]
  ELSE
    IF Len(vals) < 1 THEN DecodeRaised
    ELSE [raised |-> FALSE, raw |-> Wide(0, vals[1]),
          val |-> Scaled("int", Wide(0, vals[1]), scale)]

\* ----------------------------------------------------------------- polling
\* What the bus answers to one read request: a failure, or the device's words
BusFailure == [ok |-> FALSE, ws |-> <<0, 0>>]

\* the answers to a read of qty registers that differ for the caller
Responses(qty, words) ==
  {BusFailure} \cup
  { [ok |-> TRUE, ws |-> <<a, b>>] :
      a \in words, b \in (IF qty >= 2 THEN words ELSE {0}) }

\* _serial.read_input_registers / read_holding_registers: [raised, vals].
\* The call raises on a transport that is None (AttributeError), on a bus
\* failure and on a request for no register; it returns qty values otherwise.
ReadRegisters(serial, qty, signed, resp) ==
  IF serial = "None" \/ ~resp.ok \/ qty < 1
  THEN [raised |-> TRUE, vals |-> <<>>]
  ELSE [raised |-> FALSE,
        vals |-> [i \in 1..qty |->
                    LET w == resp.ws[((i - 1) % 2) + 1]
                    IN IF signed THEN ToSigned(w) ELSE w]]

\* a due test that lets a poll through one tick early
NotDueEarly(t, next_poll) == FLt(FAdd(t, Fin(1)), next_poll)

\* `now < _next_poll`: the poll is not due yet
NotDue(t, next_poll) == FLt(t, next_poll)

\* the primary channel's try block raises: the read does, or the decoding
PrimaryRaised(m, resp) ==
  LET r == ReadRegisters(m.serial, m.qty, m.signed, resp)
  IN r.raised \/ _decode_vals(r.vals, m.format, m.signed, m.scale).raised

\* a primary try block that forgets the last good reading on a failure
PollPrimaryClearing(m, t, resp) ==
  LET r == ReadRegisters(m.serial, m.qty, m.signed, resp)
      dec == _decode_vals(r.vals, m.format, m.signed, m.scale)
  IN IF PrimaryRaised(m, resp)
     THEN [m EXCEPT !.err_count = m.err_count + 1, !.last_ok = FALSE,
                    !.last_raw = None, !.last_value = None]
     ELSE [m EXCEPT !.last_raw = Some(dec.raw), !.last_value = Some(dec.val),
                    !.last_ok = TRUE, !.last_ts = t]

\* a primary try block that sets the ok flag as soon as the read has returned
PollPrimaryOkEarly(m, t, resp) ==
  LET r == ReadRegisters(m.serial, m.qty, m.signed, resp)
      dec == _decode_vals(r.vals, m.format, m.signed, m.scale)
  IN IF r.raised
     THEN [m EXCEPT !.err_count = m.err_count + 1, !.last_ok = FALSE]
     ELSE IF dec.raised
     THEN [m EXCEPT !.err_count = m.err_count + 1, !.last_ok = TRUE]
     ELSE [m EXCEPT !.last_raw = Some(dec.raw), !.last_value = Some(dec.val),
                    !.last_ok = TRUE, !.last_ts = t]

\* the primary channel's try block of process()
PollPrimary(m, t, resp) ==
  LET r == ReadRegisters(m.serial, m.qty, m.signed, resp)
      dec == _decode_vals(r.vals, m.format, m.signed, m.scale)
  IN IF PrimaryRaised(m, resp)
     THEN [m EXCEPT !.err_count = m.err_count + 1, !.last_ok = FALSE]
     ELSE [m EXCEPT !.last_raw = Some(dec.raw), !.last_value = Some(dec.val),
                    !.last_ok = TRUE, !.last_ts = t]

\* the humidity channel's try block raises
HumidityRaised(m, resp) ==
  LET r == ReadRegisters(m.serial, m.hum_qty, m.hum_signed, resp)
  IN r.raised \/ _decode_vals(r.vals, m.hum_format, m.hum_signed, m.hum_scale).raised

\* a humidity try block whose failure also marks the primary reading bad
PollHumidityShared(m, resp) ==
  LET r == ReadRegisters(m.serial, m.hum_qty, m.hum_signed, resp)
      dec == _decode_vals(r.vals, m.hum_format, m.hum_signed, m.hum_scale)
  IN IF HumidityRaised(m, resp)
     THEN [m EXCEPT !.last_hum_ok = FALSE, !.last_ok = FALSE]
     ELSE [m EXCEPT !.last_hum_raw = Some(dec.raw), !.last_hum = Some(dec.val),
                    !.last_hum_ok = TRUE]

\* the humidity channel's try block of process()
PollHumidity(m, resp) ==
  LET r == ReadRegisters(m.serial, m.hum_qty, m.hum_signed, resp)
      dec == _decode_vals(r.vals, m.hum_format, m.hum_signed, m.hum_scale)
  IN IF HumidityRaised(m, resp)
     THEN [m EXCEPT !.last_hum_ok = FALSE]
     ELSE [m EXCEPT !.last_hum_raw = Some(dec.raw), !.last_hum = Some(dec.val),
                    !.last_hum_ok = TRUE]

\* an advance from the missed due time instead of from now
AdvanceFromDue(m, t) == [m EXCEPT !.next_poll = FAdd(m.next_poll, m.poll_s)]

\* the schedule's advance, before either read
Advance(m, t) == [m EXCEPT !.next_poll = FAdd(t, m.poll_s)]

\* one read attempt as the call makes it: the channel, the time, the schedule as
\* it stands when the read is made, and whether the try block completed
ReadAttempt(ch, t, m, raised) ==
  [ch |-> ch, at |-> t, due |-> m.next_poll, ok |-> ~raised]

\* rs485_sensor.process() at time t: the globals it leaves (m), the branch it
\* took (kind) and the reads it attempted
process(m, t, ctorOk, presp, hresp) ==
  IF ~m.enabled THEN
    IF m.serial = "None"
    THEN [m |-> _init(m, t, ctorOk), kind |-> "init", reads |-> <<>>]
    ELSE [m |-> m, kind |-> "idle", reads |-> <<>>]
  ELSE IF NotDue(t, m.next_poll) THEN [m |-> m, kind |-> "notdue", reads |-> <<>>]
  ELSE LET m0 == Advance(m, t)
           m1 == PollPrimary(m0, t, presp)
           r1 == ReadAttempt("temp", t, m0, PrimaryRaised(m0, presp))
       IN IF m1.hum_enable
          THEN [m |-> PollHumidity(m1, hresp), kind |-> "polled",
                reads |-> <<r1, ReadAttempt("hum", t, m1, HumidityRaised(m1, hresp))>>]
          ELSE [m |-> m1, kind |-> "polled", reads |-> <<r1>>]

\* which branch of process() a call at time t takes
CallKind(m, t) ==
  IF ~m.enabled THEN (IF m.serial = "None" THEN "init" ELSE "idle")
  ELSE IF NotDue(t, m.next_poll) THEN "notdue"
  ELSE "polled"

\* ------------------------------------------------------------ configuration
BaseEnv ==
  [MODBUS_MODE |-> "TCP", RS485_SENSOR_ENABLE |-> "1",
   RS485_SENSOR_PROFILE |-> NoneStr,
   RS485_SENSOR_ADDR |-> EnvNone, RS485_SENSOR_REG |-> EnvNone,
   RS485_SENSOR_FUNC |-> NoneStr, RS485_SENSOR_SIGNED |-> NoneStr,
   RS485_SENSOR_FORMAT |-> NoneStr, RS485_SENSOR_QTY |-> EnvNone,
   RS485_SENSOR_SCALE |-> EnvNone,
   RS485_SENSOR_HUM_ENABLE |-> NoneStr, RS485_SENSOR_HUM_REG |-> EnvNone,
   RS485_SENSOR_HUM_SIGNED |-> NoneStr, RS485_SENSOR_HUM_FORMAT |-> NoneStr,
   RS485_SENSOR_HUM_QTY |-> EnvNone, RS485_SENSOR_HUM_SCALE |-> EnvNone,
   RS485_SENSOR_POLL_SEC |-> EnvNone, RS485_SENSOR_BAUD |-> EnvNone,
   MODBUS_RTU_BAUDRATE |-> EnvNone,
   WEBSERVER_ENABLE |-> NoneStr, WEBSERVER_PORT |-> EnvNone]

\* the settings the poller is run under: the feature off (by the mode, by
\* the flag), both profiles under each poll interval, a malformed slave address,
\* and 32-bit formats with and without the register count overridden
Envs ==
  { [BaseEnv EXCEPT !.MODBUS_MODE = "RTU"],
    [BaseEnv EXCEPT !.RS485_SENSOR_ENABLE = NoneStr] }
  \cup
  { [BaseEnv EXCEPT !.RS485_SENSOR_PROFILE = prof, !.RS485_SENSOR_POLL_SEC = poll] :
      prof \in {NoneStr, "sn_hute"},
      poll \in {EnvNone, EnvNum(1), EnvNum(3), EnvNaN} }
  \cup
  { [BaseEnv EXCEPT !.RS485_SENSOR_PROFILE = prof, !.RS485_SENSOR_ADDR = EnvBad] :
      prof \in {NoneStr, "sn_hute"} }
  \cup
  { [BaseEnv EXCEPT !.RS485_SENSOR_FORMAT = "Float32", !.RS485_SENSOR_QTY = qty,
                    !.RS485_SENSOR_SIGNED = "TRUE", !.RS485_SENSOR_POLL_SEC = EnvNum(4),
                    !.RS485_SENSOR_HUM_ENABLE = " on ",
                    !.RS485_SENSOR_HUM_FORMAT = "float32_swapped",
                    !.RS485_SENSOR_FUNC = " hreg"] :
      qty \in {EnvNone, EnvInt(1)} }

\* --------------------------------------------------------------- web_status
\* the digital outputs DO0..DO3
Outputs == 0 .. 3

\* the routes of the server
ToggleRoute(n) ==
  CASE n = 0 -> "/toggle_do0"
    [] n = 1 -> "/toggle_do1"
    [] n = 2 -> "/toggle_do2"
    [] n = 3 -> "/toggle_do3"

ToggleRoutes == { ToggleRoute(n) : n \in Outputs }
Routes == {"/", "/status.json", "/toggle_led"} \cup ToggleRoutes

\* the output a toggle route is about
OutputOf(route) == CHOOSE n \in Outputs : ToggleRoute(n) = route

\* the page that sends the browser back to "/"
Redirect == "<meta http-equiv='refresh' content='0;url=/'>"

\* The globals of web_status as the module body sets them; have: the import of
\* adafruit_httpserver succeeded
WebGlobals(have) ==
  [enabled |-> FALSE, pool |-> "None", http_server |-> "None", port |-> 0,
   have_httpserver |-> have]

\* the WEBSERVER_ENABLE gate of _init_server: True when the setting is absent
WebEnableGate(val) ==
  IF val = NoneStr THEN TRUE
  ELSE StripLower(val) \in {"1", "true", "yes", "on"}

\* the port of _init_server: 80 when the setting is absent or malformed
PortOf(pv) ==
  IF pv.k = "none" THEN DefaultPort
  ELSE IF IntRaises(pv) THEN DefaultPort
  ELSE pv.v

\* _init_server gets as far as Server(_pool, "/")
ServerReached(w, sp) ==
  /\ env.MODBUS_MODE # "RTU"
  /\ w.have_httpserver
  /\ WebEnableGate(env.WEBSERVER_ENABLE)
  /\ sp # "None"

\* web_status._init_server(); sp: Modbus.sockpool; startOk: Server(...) and
\* _http_server.start(...) return instead of raising
_init_server(w, sp, startOk) ==
  IF env.MODBUS_MODE = "RTU" THEN [w EXCEPT !.enabled = FALSE]
  ELSE IF ~w.have_httpserver THEN [w EXCEPT !.enabled = FALSE]
  ELSE IF ~WebEnableGate(env.WEBSERVER_ENABLE) THEN [w EXCEPT !.enabled = FALSE]
  ELSE IF sp = "None" THEN [w EXCEPT !.enabled = FALSE, !.pool = "None"]
  ELSE IF ~startOk
  THEN [w EXCEPT !.enabled = FALSE, !.pool = "None", !.http_server = "None"]
  ELSE [w EXCEPT !.enabled = TRUE, !.pool = sp, !.http_server = "Server",
                 !.port = PortOf(env.WEBSERVER_PORT)]

\* where a handler's try block raises, "ok" when it does not
ToggleFailures == {"ok", "read", "write", "coil"}

\* a toggle handler that undoes the HAL write when the coil write fails
do_toggle_rollback(n, h, c, fail) ==
  LET newv == IF h[n] # 0 THEN 0 ELSE 1
  IN [hal |-> IF fail = "ok" THEN [h EXCEPT ![n] = newv] ELSE h,
      coils |-> IF fail = "ok" THEN [c EXCEPT ![n] = newv] ELSE c,
      resp |-> Redirect]

\* a toggle handler that mirrors the old value of the output into the coil
do_toggle_stale(n, h, c, fail) ==
  LET newv == IF h[n] # 0 THEN 0 ELSE 1
  IN [hal |-> IF fail \in {"read", "write"} THEN h ELSE [h EXCEPT ![n] = newv],
      coils |-> IF fail = "ok" THEN [c EXCEPT ![n] = h[n]] ELSE c,
      resp |-> Redirect]

\* do0_toggle .. do3_toggle: the read of Hal.doutN.value, its write, and
\* Modbus.client.set_coil, in one try block; the redirect whatever happened
do_toggle(n, h, c, fail) ==
  LET newv == IF h[n] # 0 THEN 0 ELSE 1
  IN [hal |-> IF fail \in {"read", "write"} THEN h ELSE [h EXCEPT ![n] = newv],
      coils |-> IF fail = "ok" THEN [c EXCEPT ![n] = newv] ELSE c,
      resp |-> Redirect]

\* led_toggle
led_toggle(l, fail) ==
  [led |-> IF fail = "ok" THEN (IF l # 0 THEN 0 ELSE 1) ELSE l, resp |-> Redirect]

\* rs485_sensor.get_status(): the poller's globals as the snapshot embeds them;
\* last_update_s is None while _last_ts is 0.0, whole seconds otherwise
get_status(m) ==
  [enabled |-> m.enabled, ok |-> m.last_ok, value_c |-> m.last_value,
   raw |-> m.last_raw,
   last_update_s |-> IF m.last_ts = Fin(0) THEN None ELSE Some(m.last_ts.v \div 10),
   errors |-> m.err_count, slave_addr |-> m.slave_addr, reg_addr |-> m.reg_addr,
   func |-> IF m.use_input_regs THEN "IREG" ELSE "HREG",
   scale |-> m.scale, format |-> m.format,
   humidity |-> [enabled |-> m.hum_enable, ok |-> m.last_hum_ok,
                 value_pct |-> m.last_hum, raw |-> m.last_hum_raw,
                 reg_addr |-> m.hum_reg, scale |-> m.hum_scale,
                 format |-> m.hum_format]]

\* what a read of a collaborator returns when it does not fail (a sample value)
SampleReading == 1

\* The collaborator reads of _read_status, in the order it makes them: one
\* plain and one counter-backed digital input, one counter and one digital
\* output stand for the eleven inputs, five counters and four outputs, which
\* are all read the same way
SnapshotReads ==
  <<"mac", "ip", "link_up", "cpu_temp_c", "supply_mv", "DI0", "DI1", "COUNT1",
    "DO0", "AN0_mv", "AN1_mv", "AN0_ua", "AN1_ua">>

SnapshotFields == { SnapshotReads[i] : i \in 1..Len(SnapshotReads) }

\* the reads _read_status makes inside a try block of their own or of a pair
GuardedReads ==
  {"mac", "ip", "link_up", "cpu_temp_c", "supply_mv",
   "AN0_mv", "AN1_mv", "AN0_ua", "AN1_ua"}

\* the fields one try/except of _read_status sets to None when the read of
\* field f raises in it
NulledWith(f) ==
  IF f \in {"AN0_mv", "AN1_mv"} THEN {"AN0_mv", "AN1_mv"}
  ELSE IF f \in {"AN0_ua", "AN1_ua"} THEN {"AN0_ua", "AN1_ua"}
  ELSE {f}

\* the value a read returns
ReadingOf(f, h) == IF f = "DO0" THEN h[0] ELSE SampleReading

\* web_status._read_status() when the read of field `fail` raises ("ok": none
\* does): None when the exception leaves _read_status, the document otherwise
_read_status(fail, h, m, t) ==
  IF fail \in SnapshotFields \ GuardedReads THEN None
  ELSE Some([fields |-> [f \in SnapshotFields |->
                           IF fail \in SnapshotFields /\ f \in NulledWith(fail)
                           THEN None ELSE Some(ReadingOf(f, h))],
             uptime_seconds |-> t \div 10,
             rs485 |-> get_status(m)])

StatusRoutes == {"/", "/status.json"}

\* the failures a request can meet: in a toggle handler's try block, or in
\* poll() itself ("raise")
FailuresOf(req) ==
  IF req \in ToggleRoutes THEN ToggleFailures
  ELSE IF req = "/toggle_led" THEN {"ok", "read", "write"}
  ELSE {"ok", "raise"}

\* the failures a status request can meet: one read of the snapshot, or poll()
\* itself ("raise")
StatusFailuresOf(req) ==
  IF req \in StatusRoutes THEN {"ok", "raise"} \cup SnapshotFields
  ELSE {"ok", "raise"}

\* _http_server.poll() with the request req pending ("none": no request)
poll(req, fail, h, c, l) ==
  IF req \in ToggleRoutes THEN
    LET r == do_toggle(OutputOf(req), h, c, fail)
    IN [hal |-> r.hal, coils |-> r.coils, led |-> l, resp |-> r.resp,
        doc |-> None, raised |-> FALSE]
  ELSE IF req = "/toggle_led" THEN
    LET r == led_toggle(l, fail)
    IN [hal |-> h, coils |-> c, led |-> r.led, resp |-> r.resp,
        doc |-> None, raised |-> FALSE]
  ELSE IF fail = "raise" \/ req = "none" THEN
    [hal |-> h, coils |-> c, led |-> l, resp |-> "none", doc |-> None,
     raised |-> (fail = "raise")]
  ELSE
    \* index and status_json: the handler has no try block of its own
    LET status == _read_status(fail, h, rs, now)
    IN IF status = None
       THEN [hal |-> h, coils |-> c, led |-> l, resp |-> "none", doc |-> None,
             raised |-> TRUE]
       ELSE [hal |-> h, coils |-> c, led |-> l, doc |-> status, raised |-> FALSE,
             resp |-> IF req = "/" THEN "html" ELSE "json"]

\* a step that gives the server up when its poll raises
web_process_disabling(w, sp, startOk, req, fail, h, c, l) ==
  IF ~w.enabled
  THEN [web |-> _init_server(w, sp, startOk), kind |-> "init", hal |-> h,
        coils |-> c, led |-> l, resp |-> "none", doc |-> None, raised |-> FALSE]
  ELSE LET r == poll(req, fail, h, c, l)
       IN [web |-> IF r.raised
                   THEN [w EXCEPT !.enabled = FALSE, !.pool = "None",
                                  !.http_server = "None"]
                   ELSE w,
           kind |-> "poll", hal |-> r.hal, coils |-> r.coils,
           led |-> r.led, resp |-> r.resp, doc |-> r.doc, raised |-> FALSE]

\* a step that waits for an enabled server instead of initialising one
web_process_idle(w, sp, startOk, req, fail, h, c, l) ==
  IF ~w.enabled
  THEN [web |-> w, kind |-> "idle", hal |-> h, coils |-> c, led |-> l,
        resp |-> "none", doc |-> None, raised |-> FALSE]
  ELSE LET r == poll(req, fail, h, c, l)
       IN [web |-> w, kind |-> "poll", hal |-> r.hal, coils |-> r.coils,
           led |-> r.led, resp |-> r.resp, doc |-> r.doc, raised |-> FALSE]

\* web_status.process(): the globals and outputs it leaves, the branch it took
\* (kind), the response it sent and whether it raised to its caller
web_process(w, sp, startOk, req, fail, h, c, l) ==
  IF ~w.enabled
  THEN [web |-> _init_server(w, sp, startOk), kind |-> "init", hal |-> h,
        coils |-> c, led |-> l, resp |-> "none", doc |-> None, raised |-> FALSE]
  ELSE LET r == poll(req, fail, h, c, l)
       IN [web |-> w, kind |-> "poll", hal |-> r.hal, coils |-> r.coils,
           led |-> r.led, resp |-> r.resp, doc |-> r.doc, raised |-> FALSE]

\* no call of web_status.process() has been made
NoWebCall ==
  [kind |-> "none", req |-> "none", fail |-> "ok", resp |-> "none", doc |-> None,
   raised |-> FALSE, before |-> [n \in Outputs |-> 0]]

\* the state of web_status, of the outputs and of the coils after the imports
WebInitState(haves, pools) ==
  /\ web \in { WebGlobals(have) : have \in haves }
  /\ sockpool \in pools
  /\ hal = [n \in Outputs |-> 0]
  /\ coils = [n \in Outputs |-> 0]
  /\ webCall = NoWebCall
  /\ webInits = 0

\* ----------------------------------------------------------------- actions
\* the settings the whole program is run under
LoopEnvs ==
  { [BaseEnv EXCEPT !.MODBUS_MODE = mode, !.RS485_SENSOR_PROFILE = "sn_hute",
                    !.RS485_SENSOR_POLL_SEC = EnvNum(3), !.WEBSERVER_ENABLE = "0"] :
      mode \in {"TCP", "RTU"} }

\* the web server left as the imports leave it, with the library and the pool
WebIdle == WebInitState({TRUE}, {"pool"})

InitState ==
  /\ now = 0
  /\ rs = RsInit
  /\ lastCall = "none"
  /\ reads = <<>>
  /\ attempts = <<>>
  /\ consults = 0
  /\ pc = "feed1"
  /\ timestamp = 0
  /\ led = 0
  /\ trace = <<>>
  /\ exit = "running"

\* no call of the decoder on its own is under way
DecodeIdle ==
  /\ dargs = [vals |-> <<>>, fmt |-> "int16", signed |-> FALSE, scale |-> Fin(DefaultScale)]
  /\ dout = None

Init == env \in LoopEnvs /\ InitState /\ DecodeIdle /\ WebIdle

PollerInit == env \in Envs /\ InitState /\ DecodeIdle /\ WebIdle

\* time passes
Tick ==
  /\ now < MaxTime
  /\ now' = now + 1
  /\ UNCHANGED <<env, decVars, webVars, sensorVars, loopVars>>

\* one call of rs485_sensor.process() that returns
Process(ctorOk, presp, hresp) ==
  \E r \in {process(rs, Fin(now), ctorOk, presp, hresp)} :
     /\ r.m.err_count <= MaxErr
     /\ rs' = r.m
     /\ lastCall' = r.kind
     /\ reads' = r.reads
     /\ attempts' = IF r.kind = "polled"
                    THEN (IF attempts = <<>> THEN <<>> ELSE <<attempts[Len(attempts)]>>)
                         \o <<now>>
                    ELSE attempts
     /\ consults' = IF r.kind = "init" /\ consults < MaxConsults
                    THEN consults + 1 ELSE consults

\* the inputs a call of process() consumes
CtorOutcomes == IF CallKind(rs, Fin(now)) = "init" THEN BOOLEAN ELSE {TRUE}
PrimaryAnswers ==
  IF CallKind(rs, Fin(now)) = "polled" THEN Responses(rs.qty, Words) ELSE {BusFailure}
HumidityAnswers ==
  IF CallKind(rs, Fin(now)) = "polled" /\ rs.hum_enable
  THEN Responses(rs.hum_qty, HumWords) ELSE {BusFailure}

\* the poller's step called by a scheduler, at any time
PollerCall ==
  /\ \E ctorOk \in CtorOutcomes, presp \in PrimaryAnswers, hresp \in HumidityAnswers :
       Process(ctorOk, presp, hresp)
  /\ UNCHANGED <<env, decVars, webVars, now, loopVars>>

PollerNext == Tick \/ PollerCall

PollerSpec == PollerInit /\ [][PollerNext]_vars

\* ------------------------------------------------------------- the decoder
\* register values the decoder is given: 16-bit words, and -1, which the
\* transport returns for the word 0xFFFF when it is asked for signed values
DecodeWords == {0, 235, 32768, 65535, -1}

\* the formats of _decode_vals, and one it does not know
DecodeFormats == {"int16", "uint16", "float32", "float32_swapped", "bcd"}

\* one or two register values with a format, the signed flag and a scale
DecodeInputs ==
  { [vals |-> v, fmt |-> f, signed |-> sg, scale |-> Fin(DefaultScale)] :
      v \in { <<a>> : a \in DecodeWords } \cup (DecodeWords \X DecodeWords),
      f \in DecodeFormats, sg \in BOOLEAN }

DecodeInit ==
  /\ env = BaseEnv
  /\ InitState
  /\ dargs \in DecodeInputs
  /\ dout = None
  /\ WebIdle

\* one call of _decode_vals(vals, fmt, signed, scale)
Decode ==
  /\ dout = None
  /\ dout' = Some(_decode_vals(dargs.vals, dargs.fmt, dargs.signed, dargs.scale))
  /\ UNCHANGED <<env, now, sensorVars, loopVars, webVars, dargs>>

DecodeSpec == DecodeInit /\ [][Decode]_vars

\* ------------------------------------------------- web_status: the steps
\* the inputs a call of web_status.process() consumes
StartOutcomes == IF ~web.enabled /\ ServerReached(web, sockpool) THEN BOOLEAN ELSE {TRUE}
PendingRequests == IF web.enabled THEN Routes \cup {"none"} ELSE {"none"}

\* one call of web_status.process() that returns
WebProcess(startOk, req, fail) ==
  \E r \in {web_process(web, sockpool, startOk, req, fail, hal, coils, led)} :
     /\ web' = r.web
     /\ hal' = r.hal
     /\ coils' = r.coils
     /\ led' = r.led
     /\ webCall' = [kind |-> r.kind, req |-> req,
                    fail |-> IF startOk THEN fail ELSE "start",
                    resp |-> r.resp, doc |-> r.doc, raised |-> r.raised,
                    before |-> hal]
     /\ webInits' = IF r.kind = "init" /\ webInits < MaxWebInits
                    THEN webInits + 1 ELSE webInits
     /\ UNCHANGED sockpool

\* the settings the web server is run under
WebEnvs ==
  { [BaseEnv EXCEPT !.MODBUS_MODE = "TCP", !.WEBSERVER_ENABLE = "1"],
    [BaseEnv EXCEPT !.MODBUS_MODE = "TCP", !.WEBSERVER_ENABLE = NoneStr,
                    !.WEBSERVER_PORT = EnvBad],
    [BaseEnv EXCEPT !.MODBUS_MODE = NoneStr, !.WEBSERVER_ENABLE = " Yes ",
                    !.WEBSERVER_PORT = EnvInt(8080)],
    [BaseEnv EXCEPT !.MODBUS_MODE = "RTU", !.WEBSERVER_ENABLE = "1"],
    [BaseEnv EXCEPT !.MODBUS_MODE = "TCP", !.WEBSERVER_ENABLE = "0"],
    [BaseEnv EXCEPT !.MODBUS_MODE = "TCP", !.WEBSERVER_ENABLE = "enabled"] }

WebInit ==
  /\ env \in WebEnvs
  /\ InitState
  /\ DecodeIdle
  /\ WebInitState(BOOLEAN, {"None", "pool"})

\* the web server's step called by a scheduler
WebCall ==
  /\ \E startOk \in StartOutcomes, req \in PendingRequests :
       \E fail \in FailuresOf(req) : WebProcess(startOk, req, fail)
  /\ UNCHANGED <<env, now, sensorVars, decVars, pc, timestamp, trace, exit>>

\* the Modbus TCP setup creates the socket pool
PoolAppears ==
  /\ sockpool = "None"
  /\ sockpool' = "pool"
  /\ UNCHANGED <<env, now, sensorVars, decVars, loopVars, web, hal, coils, webCall,
                 webInits>>

WebNext == WebCall \/ PoolAppears

WebSpec == WebInit /\ [][WebNext]_vars

\* -------------------------------------------- the poller and the web server
\* the settings the device is run under with both subsystems on, and with the
\* sensor feature off
DeviceEnvs ==
  { [BaseEnv EXCEPT !.RS485_SENSOR_ENABLE = en, !.RS485_SENSOR_POLL_SEC = EnvNum(3),
                    !.WEBSERVER_ENABLE = "1"] : en \in {"1", "0"} }

DeviceInit ==
  /\ env \in DeviceEnvs
  /\ InitState
  /\ DecodeIdle
  /\ WebInitState({TRUE}, {"None"})

\* the web server's step when only requests for the JSON snapshot arrive
StatusCall ==
  /\ \E startOk \in StartOutcomes, req \in PendingRequests \cap {"none", "/status.json"} :
       \E fail \in StatusFailuresOf(req) : WebProcess(startOk, req, fail)
  /\ UNCHANGED <<env, now, sensorVars, decVars, pc, timestamp, trace, exit>>

DeviceNext == Tick \/ PollerCall \/ StatusCall \/ PoolAppears

DeviceSpec == DeviceInit /\ [][DeviceNext]_vars

\* ---------------------------------------------------------------- main loop
\* how a call ends: it returns, raises an Exception, or raises KeyboardInterrupt
Outcomes == {"ok", "exc", "kbd"}

\* an exception that no handler of the loop catches ends the program
Leave(how) ==
  /\ pc' = "exited"
  /\ exit' = how

\* main.py 40-48: watchdog.feed() inside the first try block
Feed1(o) ==
  /\ pc = "feed1"
  /\ trace' = <<"feed">>
  /\ IF o = "kbd" THEN Leave("break")
     ELSE /\ pc' = (IF o = "ok" THEN "modbus" ELSE "web")
          /\ exit' = exit
  /\ UNCHANGED <<env, decVars, webVars, now, sensorVars, timestamp, led>>

\* main.py 43-48: iriv_ioc_modbus.client.process() inside the first try block
ModbusStep(o) ==
  /\ pc = "modbus"
  /\ trace' = Append(trace, "modbus")
  /\ IF o = "kbd" THEN Leave("break")
     ELSE /\ pc' = "web"
          /\ exit' = exit
  /\ UNCHANGED <<env, decVars, webVars, now, sensorVars, timestamp, led>>

\* main.py 51-55: web_status.process()
WebStep(o) ==
  /\ pc = "web"
  /\ trace' = Append(trace, "web")
  /\ IF o = "ok"
     THEN \E startOk \in StartOutcomes, req \in PendingRequests :
             \E fail \in FailuresOf(req) : WebProcess(startOk, req, fail)
     ELSE UNCHANGED <<webVars, led>>
  /\ IF o = "kbd" THEN Leave("KeyboardInterrupt")
     ELSE /\ pc' = "sensor"
          /\ exit' = exit
  /\ UNCHANGED <<env, decVars, now, sensorVars, timestamp>>

\* main.py 58-61: rs485_sensor.process()
SensorStep(o) ==
  /\ pc = "sensor"
  /\ trace' = Append(trace, "sensor")
  /\ IF o = "ok"
     THEN \E ctorOk \in CtorOutcomes, presp \in PrimaryAnswers,
             hresp \in HumidityAnswers : Process(ctorOk, presp, hresp)
     ELSE UNCHANGED sensorVars
  /\ IF o = "kbd" THEN Leave("KeyboardInterrupt")
     ELSE /\ pc' = "heartbeat"
          /\ exit' = exit
  /\ UNCHANGED <<env, decVars, webVars, now, timestamp, led>>

\* main.py 64: the heartbeat interval has elapsed
HeartbeatDue == now - timestamp >= HeartbeatTicks

\* main.py 64-66: the heartbeat; o is how the write of Hal.led.value ends
Heartbeat(o) ==
  /\ pc = "heartbeat"
  /\ trace' = Append(trace, "heartbeat")
  /\ IF HeartbeatDue
     THEN /\ timestamp' = now
          /\ led' = (IF o = "ok" THEN 1 - led ELSE led)
          /\ IF o = "ok" THEN pc' = "feed2" /\ exit' = exit
             ELSE Leave(IF o = "kbd" THEN "KeyboardInterrupt" ELSE "Exception")
     ELSE /\ o = "ok"
          /\ pc' = "feed2"
          /\ UNCHANGED <<timestamp, led, exit>>
  /\ UNCHANGED <<env, decVars, webVars, now, sensorVars>>

\* main.py 69: the closing watchdog.feed()
Feed2(o) ==
  /\ pc = "feed2"
  /\ trace' = Append(trace, "feed")
  /\ IF o = "ok" THEN pc' = "feed1" /\ exit' = exit
     ELSE Leave(IF o = "kbd" THEN "KeyboardInterrupt" ELSE "Exception")
  /\ UNCHANGED <<env, decVars, webVars, now, sensorVars, timestamp, led>>

Next ==
  \/ Tick
  \/ \E o \in Outcomes : Feed1(o)
  \/ \E o \in Outcomes : ModbusStep(o)
  \/ \E o \in Outcomes : WebStep(o)
  \/ \E o \in Outcomes : SensorStep(o)
  \/ \E o \in Outcomes : Heartbeat(o)
  \/ \E o \in Outcomes : Feed2(o)

Spec == Init /\ [][Next]_vars
\* ------------------------------------------------------------------ claims
FullOrder == <<"feed", "modbus", "web", "sensor", "heartbeat", "feed">>
IsolatedSteps == {"modbus", "web", "sensor", "heartbeat"}

\* float >= float
FGe(a, b) == a.k # "nan" /\ b.k # "nan" /\ ~FLt(a, b)

\* the sensor feature is enabled by the settings
FeatureEnabled ==
  env.MODBUS_MODE = "TCP" /\ env.RS485_SENSOR_ENABLE \in {"1", "true", "yes", "on"}

\* C1: every iteration of the main loop that runs to its end has made exactly the
\* calls feed, Modbus step, web step, sensor step, heartbeat check, feed, in
\* this order, each once.
C1_FixedOrder == (pc = "feed1" /\ trace # <<>>) => trace = FullOrder

\* C2: an Exception raised by the Modbus step, the web step, the sensor step or
\* the heartbeat toggle never stops the tick: the loop is never left through an
\* Exception of one of these steps.
C2_StepsIsolated ==
  exit = "Exception" => trace[Len(trace)] \notin IsolatedSteps

\* C3: the main loop is left only through an operator interrupt, whatever the
\* watchdog feed, the subsystem steps or the heartbeat write raise.
C3_OnlyInterruptLeaves == exit \in {"running", "break", "KeyboardInterrupt"}

\* C4: a step of the Active poller called before the poll is due attempts no
\* read and leaves the schedule, both readings and the error count unchanged.
C4_NotDueNoOp ==
  [][(PollerCall /\ rs.enabled /\ rs.serial = "Serial"
        /\ FLt(Fin(now), rs.next_poll))
     => (reads' = <<>> /\ rs' = rs)]_vars

C4_Witness ==
  /\ lastCall = "notdue"
  /\ rs.serial = "Serial"
  /\ rs.last_raw # None
  /\ FLt(Fin(now), rs.next_poll)

\* C5: a step that polls sets the next due time to now + interval before the
\* first read is made, whether the reads succeed or fail.
C5_AdvanceBeforeRead ==
  lastCall = "polled" =>
    /\ reads # <<>>
    /\ \A i \in 1..Len(reads) : reads[i].due = FAdd(reads[i].at, rs.poll_s)
    /\ rs.next_poll = FAdd(reads[1].at, rs.poll_s)

C5_Witness ==
  /\ lastCall = "polled"
  /\ Len(reads) = 2
  /\ ~reads[1].ok
  /\ reads[2].ok
  /\ rs.serial = "Serial"
  /\ reads[1].at.v > 0
  /\ rs.next_poll = Fin(reads[1].at.v + 3)

\* C6: two consecutive poll attempts on the primary channel are at least the
\* poll interval apart.
C6_NoCatchUp ==
  Len(attempts) = 2 => FGe(Fin(attempts[2] - attempts[1]), rs.poll_s)

\* C7: a due poll whose primary read fails adds exactly one to the error count,
\* clears the primary ok flag and leaves the primary raw value, scaled value and
\* timestamp as they were; the error count never decreases.
C7_PrimaryFailure ==
  [][/\ (PollerCall /\ reads' # <<>> /\ ~reads'[1].ok)
        => /\ rs'.err_count = rs.err_count + 1
           /\ rs'.last_ok = FALSE
           /\ rs'.last_raw = rs.last_raw
           /\ rs'.last_value = rs.last_value
           /\ rs'.last_ts = rs.last_ts
     /\ rs'.err_count >= rs.err_count]_vars

C7_Witness ==
  /\ lastCall = "polled"
  /\ ~reads[1].ok
  /\ rs.serial = "Serial"
  /\ rs.last_raw # None
  /\ rs.last_ts # reads[1].at
  /\ rs.err_count = 2

\* C8: in one poll each channel's ok flag is the outcome of that channel's own
\* read, a channel whose read failed keeps its raw and scaled values, and the
\* humidity read is attempted whatever the primary read did.
C8_ChannelsIndependent ==
  [][(PollerCall /\ reads' # <<>>)
     => /\ rs'.last_ok = reads'[1].ok
        /\ ~reads'[1].ok =>
             (rs'.last_raw = rs.last_raw /\ rs'.last_value = rs.last_value)
        /\ rs.hum_enable =>
             /\ Len(reads') = 2
             /\ rs'.last_hum_ok = reads'[2].ok
             /\ ~reads'[2].ok =>
                  (rs'.last_hum_raw = rs.last_hum_raw /\ rs'.last_hum = rs.last_hum)
        /\ ~rs.hum_enable =>
             /\ Len(reads') = 1
             /\ rs'.last_hum_ok = rs.last_hum_ok
             /\ rs'.last_hum_raw = rs.last_hum_raw
             /\ rs'.last_hum = rs.last_hum]_vars

C8_Witness ==
  /\ lastCall = "polled"
  /\ rs.serial = "Serial"
  /\ Len(reads) = 2
  /\ ~reads[1].ok
  /\ reads[2].ok
  /\ ~rs.last_ok
  /\ rs.last_hum_ok
  /\ rs.last_raw # None
  /\ rs.last_hum_raw # None
  /\ rs.err_count = 1

\* C9: while the enabled poller has no transport, every step call made so far
\* attempted the construction.
C9_RetriesConstruction ==
  (FeatureEnabled /\ rs.serial = "None" /\ lastCall # "none") => lastCall = "init"

\* C10: while no transport has ever been constructed the error count is 0.
C10_NoErrorsBeforeTransport == rs.serial = "None" => rs.err_count = 0

\* C11: once a step call has found the sensor feature off (the flag false or
\* the mode not TCP), every later step call leaves the poller disabled and
\* without a transport, attempts no read, changes no reading, and does not
\* evaluate the configuration again.
C11_DisabledTerminal ==
  [][(PollerCall /\ lastCall = "init" /\ ~rs.enabled)
     => /\ rs' = rs
        /\ rs'.serial = "None"
        /\ reads' = <<>>
        /\ consults' = consults]_vars

\* a 16-bit register word
IsWord(w) == w \in 0..65535

\* C12: decoding one register word w with format int16 and signed = true gives
\* the raw value w if w < 32768 and w - 65536 otherwise (-1 for 0xFFFF);
\* decoding it with format uint16 gives the raw value w whatever the signed flag.
C12_Int16Signedness ==
  (dout # None /\ Len(dargs.vals) = 1 /\ IsWord(dargs.vals[1])) =>
     LET w == dargs.vals[1]
     IN /\ ~dout[1].raised
        /\ (dargs.fmt = "int16" /\ dargs.signed) =>
              dout[1].raw = Wide(0, IF w < 32768 THEN w ELSE w - 65536)
        /\ dargs.fmt = "uint16" => dout[1].raw = Wide(0, w)

\* C13: for 16-bit words msw and lsw, decoding <<msw, lsw>> with float32 and
\* decoding <<lsw, msw>> with float32_swapped give the same result, and its raw
\* value is the 32-bit pattern msw * 65536 + lsw.
C13_WordSwapSymmetry ==
  (/\ dout # None
   /\ dargs.fmt = "float32"
   /\ Len(dargs.vals) = 2
   /\ IsWord(dargs.vals[1])
   /\ IsWord(dargs.vals[2])) =>
     LET msw == dargs.vals[1]
         lsw == dargs.vals[2]
     IN /\ ~dout[1].raised
        /\ dout[1].raw = Wide(msw, lsw)
        /\ dout[1] = _decode_vals(<<lsw, msw>>, "float32_swapped",
                                  dargs.signed, dargs.scale)

C13_Witness ==
  /\ dout # None
  /\ dargs.fmt = "float32"
  /\ dargs.vals = <<235, 65535>>
  /\ dout[1].raw = Wide(235, 65535)
  /\ dout[1].val = Scaled("f32", Wide(235, 65535), Fin(DefaultScale))

\* the number of words a format needs
WordsOf(fmt) == IF fmt \in {"float32", "float32_swapped"} THEN 2 ELSE 1

\* C14: whatever the profile and the format and quantity overrides are, the
\* configuration derived by _init has, for the primary and for the humidity
\* channel, quantity 2 when the format is a 32-bit float format and 1 otherwise.
C14_QuantityMatchesFormat ==
  rs.enabled =>
    /\ rs.qty = WordsOf(rs.format)
    /\ rs.hum_enable => rs.hum_qty = WordsOf(rs.hum_format)

\* C15: with the feature enabled, the first step call constructs the transport
\* unless Serial(...) itself raises, whatever overrides are malformed or
\* missing; a malformed or missing slave address leaves the address 1, a
\* malformed or missing poll interval leaves the interval 2.0 s; the poll
\* interval is at least 0.2 s.
C15_MalformedTakesDefault ==
  [][(lastCall = "none" /\ FeatureEnabled /\ Process(TRUE, BusFailure, BusFailure))
     => /\ rs'.enabled
        /\ rs'.serial = "Serial"
        /\ FGe(rs'.poll_s, Fin(FloorTicks))
        /\ env.RS485_SENSOR_ADDR.k \in {"none", "bad"} => rs'.slave_addr = 1
        /\ env.RS485_SENSOR_POLL_SEC.k \in {"none", "bad"} =>
              rs'.poll_s = Fin(DefaultPollTicks)]_vars

\* a scaled value raw * scale of a 16-bit format, in tenths (the scale is kept in
\* tenths: 235 * 0.1 = 23.5 is 235 tenths)
InTenths(val) == val.x.lo * val.scale.v

\* C16: under the profile SN_HUTE with no override the derived configuration is
\* slave address 1, holding registers, primary register 1, format int16, scale
\* 0.1, humidity channel enabled at register 2 with the same format and scale;
\* a poll whose reads return 235 and 612 leaves raw 235 / scaled 23.5 and raw
\* 612 / scaled 61.2 with both ok flags true.
C16_PresetPoll ==
  [][(/\ StripUpper(env.RS485_SENSOR_PROFILE) = "SN_HUTE"
      /\ env.RS485_SENSOR_ADDR = EnvNone
      /\ rs.serial = "Serial"
      /\ PollerCall
      /\ \E hresp \in HumidityAnswers :
            Process(TRUE, [ok |-> TRUE, ws |-> <<235, 0>>], hresp)
      /\ \E presp \in PrimaryAnswers :
            Process(TRUE, presp, [ok |-> TRUE, ws |-> <<612, 0>>])
      /\ reads' # <<>>)
     => /\ rs.slave_addr = 1
        /\ ~rs.use_input_regs
        /\ rs.reg_addr = 1
        /\ rs.format = "int16"
        /\ rs.scale = Fin(DefaultScale)
        /\ rs.hum_enable
        /\ rs.hum_reg = 2
        /\ rs.hum_format = rs.format
        /\ rs.hum_scale = rs.scale
        /\ rs'.last_raw = Some(Wide(0, 235))
        /\ InTenths(rs'.last_value[1]) = 235
        /\ rs'.last_ok
        /\ rs'.last_hum_raw = Some(Wide(0, 612))
        /\ InTenths(rs'.last_hum[1]) = 612
        /\ rs'.last_hum_ok]_vars

C16_Witness ==
  /\ StripUpper(env.RS485_SENSOR_PROFILE) = "SN_HUTE"
  /\ env.RS485_SENSOR_ADDR = EnvNone
  /\ env.RS485_SENSOR_POLL_SEC = EnvNone
  /\ lastCall = "polled"
  /\ Len(reads) = 2
  /\ reads[1].ok
  /\ reads[2].ok
  /\ rs.last_raw = Some(Wide(0, 235))
  /\ rs.last_hum_raw = Some(Wide(0, 612))
  /\ rs.last_value = Some(Scaled("int", Wide(0, 235), Fin(DefaultScale)))
  /\ rs.last_hum = Some(Scaled("int", Wide(0, 612), Fin(DefaultScale)))

\* a web step that served the toggle request of output n
ToggledBy(call, n) == call.kind = "poll" /\ call.req = ToggleRoute(n)

\* C17: two toggle requests for the same output served one after the other,
\* neither meeting a failure, leave the HAL outputs as they were before the
\* first; after each of the two the output's coil equals the HAL output, and
\* the other outputs and coils are untouched.
C17_ToggleTwice ==
  [][\A n \in Outputs :
       (/\ ToggledBy(webCall, n) /\ webCall.fail = "ok"
        /\ ToggledBy(webCall', n) /\ webCall'.fail = "ok"
        /\ WebCall)
       => /\ hal' = webCall.before
          /\ hal'[n] # hal[n]
          /\ coils[n] = hal[n]
          /\ coils'[n] = hal'[n]
          /\ \A k \in Outputs \ {n} : hal'[k] = hal[k] /\ coils'[k] = coils[k]]_vars

C17_Witness ==
  /\ ToggledBy(webCall, 2)
  /\ webCall.fail = "ok"
  /\ webCall.before = [n \in Outputs |-> IF n = 2 THEN 1 ELSE 0]
  /\ hal = [n \in Outputs |-> 0]
  /\ coils = hal

\* C18: when the coil write of a toggle request fails, the HAL output keeps its
\* flipped value, no coil changes, and the request is answered with the
\* redirect; the step does not raise.
C18_NoRollback ==
  [][\A n \in Outputs :
       (ToggledBy(webCall', n) /\ webCall'.fail = "coil" /\ WebCall)
       => /\ hal'[n] = 1 - hal[n]
          /\ \A k \in Outputs \ {n} : hal'[k] = hal[k]
          /\ coils' = coils
          /\ webCall'.resp = Redirect
          /\ ~webCall'.raised]_vars

C18_Witness ==
  /\ ToggledBy(webCall, 1)
  /\ webCall.fail = "coil"
  /\ webCall.before[1] = 0
  /\ hal[1] = 1
  /\ coils[1] = 0
  /\ webCall.resp = Redirect

\* C19: the web server is active only if the mode is TCP, the HTTP server
\* library is present and WEBSERVER_ENABLE is set to a true value.
C19_ActiveOnlyIfEnabled ==
  web.enabled =>
    /\ env.MODBUS_MODE = "TCP"
    /\ web.have_httpserver
    /\ env.WEBSERVER_ENABLE # NoneStr
    /\ StripLower(env.WEBSERVER_ENABLE) \in {"1", "true", "yes", "on"}

\* the settings, the library and the socket pool all allow the server
Prerequisites ==
  /\ env.MODBUS_MODE = "TCP"
  /\ web.have_httpserver
  /\ env.WEBSERVER_ENABLE # NoneStr
  /\ StripLower(env.WEBSERVER_ENABLE) \in {"1", "true", "yes", "on"}
  /\ sockpool # "None"

\* C20: a step call of the inactive web server serves no request, calls
\* _init_server again and does not raise; once every prerequisite is there such
\* a call, if the server starts, makes the server active; a step call of the
\* active server polls it.
C20_InactiveRetries ==
  [][\/ /\ ~web.enabled =>
               /\ webCall'.kind = "init"
               /\ webCall'.resp = "none"
               /\ ~webCall'.raised
               /\ hal' = hal /\ coils' = coils /\ led' = led
               /\ (Prerequisites /\ webCall'.fail # "start") => web'.enabled
        /\ web.enabled =>
               /\ webCall'.kind = "poll"
               /\ ~webCall'.raised
               /\ web' = web
     \/ ~WebCall]_vars

C20_Witness ==
  /\ web.enabled
  /\ webInits = 2
  /\ Prerequisites
  /\ webCall.kind = "poll"
  /\ webCall.resp = "html"

\* C21: when exactly one collaborator read fails while a status request is
\* served, the request is still answered with a document in which that field,
\* and no other, is null.
C21_PartialSnapshot ==
  (/\ webCall.kind = "poll"
   /\ webCall.req \in StatusRoutes
   /\ webCall.fail \in SnapshotFields) =>
     /\ webCall.resp # "none"
     /\ webCall.doc # None
     /\ \A f \in SnapshotFields :
           (webCall.doc[1].fields[f] = None) <=> (f = webCall.fail)

\* C22: a snapshot taken while the poller has no transport (the feature off, or
\* on with the transport not constructed) shows the RS485 sensor with enabled
\* false, ok false, and no raw value, scaled value or last-update time.
C22_NoTransportSnapshot ==
  [][(/\ rs.serial = "None"
      /\ webCall'.kind = "poll"
      /\ webCall'.doc # None
      /\ StatusCall)
     => LET g == webCall'.doc[1].rs485
        IN /\ ~g.enabled
           /\ ~g.ok
           /\ g.raw = None
           /\ g.value_c = None
           /\ g.last_update_s = None]_vars

\* C23: for each channel, ok true means the raw and the scaled value are both
\* there and the scaled value is that raw value times the channel's scale;
\* before the first step call ok is false, raw and scaled are absent and the
\* error count is 0.
C23_OkMeansPresent ==
  /\ rs.last_ok =>
       /\ rs.last_raw # None
       /\ rs.last_value # None
       /\ rs.last_value[1].x = rs.last_raw[1]
       /\ rs.last_value[1].scale = rs.scale
  /\ rs.last_hum_ok =>
       /\ rs.last_hum_raw # None
       /\ rs.last_hum # None
       /\ rs.last_hum[1].x = rs.last_hum_raw[1]
       /\ rs.last_hum[1].scale = rs.hum_scale
  /\ lastCall = "none" =>
       /\ ~rs.last_ok /\ rs.last_raw = None /\ rs.last_value = None
       /\ ~rs.last_hum_ok /\ rs.last_hum_raw = None /\ rs.last_hum = None
       /\ rs.err_count = 0

C23_Witness ==
  /\ rs.last_ok
  /\ rs.last_hum_ok
  /\ rs.format = "float32"
  /\ rs.last_raw = Some(Wide(235, 65535))
  /\ rs.last_hum_raw = Some(Wide(612, 65535))
  /\ rs.err_count = 1

\* the configuration _init derives: everything of the poller's globals but the
\* readings, the error count and the schedule
SensorConfig(m) ==
  [serial |-> m.serial, slave_addr |-> m.slave_addr, reg_addr |-> m.reg_addr,
   use_input_regs |-> m.use_input_regs, signed |-> m.signed, scale |-> m.scale,
   format |-> m.format, qty |-> m.qty, poll_s |-> m.poll_s,
   hum_enable |-> m.hum_enable, hum_reg |-> m.hum_reg,
   hum_signed |-> m.hum_signed, hum_scale |-> m.hum_scale,
   hum_format |-> m.hum_format, hum_qty |-> m.hum_qty]

====
